---- MODULE Spec2Model ----
(***************************************************************************)
(* Model of the Fig-to-PSD conversion server (src/index.js).               *)
(*                                                                         *)
(* One job is one invocation of the async handler of POST /convert.  Each  *)
(* await of the handler is a position (pc) of the job; between two awaits  *)
(* the wrapper page's message listener may run for any message the         *)
(* Photopea iframe posts.  The browser controller (puppeteer) and the      *)
(* remote editor are external: every controller call may fail, every wait  *)
(* may time out, and the editor may post any message at any time.          *)
(*                                                                         *)
(* Spec runs one request against an editor that posts anything in any      *)
(* order.  SpecConc runs NumJobs requests at once, their steps interleaved  *)
(* freely, against editors that answer in the order the handler expects.   *)
(* SpecLive is Spec with every await of the handler eventually settling.   *)
(***************************************************************************)
EXTENDS Integers, Sequences, FiniteSets, TLC

\* ---------------------------------------------------------------- bounds
NumJobs == 2            \* handler invocations that can be in progress
MaxMsgs == 4            \* messages the remote editor posts to one job alone
ConcMsgs == 3           \* messages it posts to concurrent jobs, all together
LiveMsgs == 3           \* messages it posts to the job of the fairness check
MaxFaults == 2          \* controller calls that fail for one job alone (a
                        \* job throws once in its try block and once in close)
ConcFaults == 1         \* controller calls that fail for concurrent jobs

Jobs == 1..NumJobs

\* ------------------------------------------------------ program constants
GotoTimeout == 60000   \* page.goto timeout
ReadyTimeout == 60000   \* handshake waitForFunction timeout
LoadTimeout == 60000   \* load waitForFunction timeout
PsdTimeout == 60000   \* export waitForFunction timeout

DONE == <<"d", "o", "n", "e">>
FIG == <<".", "f", "i", "g">>
PSD == <<".", "p", "s", "d">>
EXPORTCMD == "app.activeDocument.saveToOE(\"psd\");"

NULL == <<-1>>          \* JavaScript null / undefined for byte buffers

\* ----------------------------------------------------------------- inputs
\* uploaded file names (originalname), as character sequences
Names == { <<"a">> \o FIG,
           FIG \o FIG,
           FIG \o <<"x">>,
           <<"a", ".", "p", "n", "g">> }

\* uploaded file contents
FileBytes == { <<7, 7>> }

\* ArrayBuffers the remote editor may post: '8BPS' header, a wrong header,
\* and the empty buffer
Buffers == { <<56, 66, 80, 83, 0>>, <<56, 66, 80, 0>>, <<>> }

\* message events the iframe may post to the wrapper window
Messages == { [type |-> "string", data |-> DONE],
              [type |-> "string", data |-> <<"h", "i">>] }
            \cup { [type |-> "ArrayBuffer", data |-> b] : b \in Buffers }

\* the environments: what the clients upload and what the editor posts
EnvNames(e) == IF e = "any" THEN Names ELSE { <<"a">> \o FIG }
EnvMessages(e) ==
    IF e = "any" THEN Messages
    ELSE { [type |-> "string", data |-> DONE],
           [type |-> "ArrayBuffer", data |-> <<56, 66, 80, 83, 0>>] }

VARIABLES
    pc,         \* pc[j]: position of job j's handler
    req,        \* req[j]: the upload of job j; hasFile: req.file is set
    browser,    \* browser[j]: the handler's local `browser` (0 = undefined)
    page,       \* page[j]: the wrapper window's globals
    psdArray,   \* psdArray[j]: the handler's local `psdArray`
    err,        \* err[j]: the error caught by the handler's catch
    resp,       \* resp[j]: the HTTP response sent for job j
    sent,       \* sent[j]: messages posted to the iframe, in order
    proc,       \* proc[h]: browser process h ("none", "running", "closed")
    closedBy,   \* closedBy[h]: jobs that called close on process h
    closeCalls, \* closeCalls[j]: browser.close calls made by job j
    src,        \* src[j]: messageLog index of the message behind each flag
    obs,        \* obs[j]: messageLog index each wait (and the retrieval) saw
    mark,       \* mark[j]: messageLog length at the handler's resets/posts
    quota,      \* messages the editor may still post
    admit,      \* requests still to arrive
    env,        \* the environment: "any" or "inOrder"
    faults      \* controller calls that may still fail or time out

vars == << pc, req, browser, page, psdArray, err, resp, sent, proc,
           closedBy, closeCalls, src, obs, mark, quota, admit, env, faults >>

\* --------------------------------------------------------- pure functions
Min(a, b) == IF a < b THEN a ELSE b

\* String.prototype.endsWith
EndsWith(s, suffix) ==
    /\ Len(s) >= Len(suffix)
    /\ SubSeq(s, Len(s) - Len(suffix) + 1, Len(s)) = suffix

\* String.prototype.indexOf, 1-based; 0 when absent
RECURSIVE IndexFrom(_, _, _)
IndexFrom(s, pat, i) ==
    IF i + Len(pat) - 1 > Len(s) THEN 0
    ELSE IF SubSeq(s, i, i + Len(pat) - 1) = pat THEN i
    ELSE IndexFrom(s, pat, i + 1)

\* String.prototype.replace with a string pattern: the first occurrence only
Replace(s, pat, rep) ==
    LET i == IndexFrom(s, pat, 1) IN
    IF i = 0 THEN s
    ELSE SubSeq(s, 1, i - 1) \o rep \o SubSeq(s, i + Len(pat), Len(s))

\* String.prototype.substring(0, n)
Substring0(s, n) == SubSeq(s, 1, Min(Len(s), n))

\* new Uint8Array(list): each element modulo 256
Uint8Array(list) == [i \in 1..Len(list) |-> list[i] % 256]

\* Array.from(new Uint8Array(buffer)) for an ArrayBuffer
ArrayFromBuffer(buffer) == [i \in 1..Len(buffer) |-> buffer[i]]

\* Buffer.from(array)
BufferFrom(array) == [i \in 1..Len(array) |-> array[i] % 256]

\* error messages of the browser controller
WaitingFailed(timeout) == << "Waiting failed: ms exceeded", timeout >>
NavigationTimeout(timeout) == << "Navigation timeout of ms exceeded", timeout >>
LaunchError == << "Failed to launch the browser process!", 0 >>
ProtocolError == << "Protocol error", 0 >>
NoError == << "", 0 >>

NoFile == [hasFile |-> FALSE, originalname |-> <<>>, buffer |-> <<>>]
NoResp == [status |-> 0, error |-> "", message |-> NoError,
           body |-> NULL, filename |-> <<>>]
NoPage == [live |-> FALSE, ppReady |-> FALSE, psdData |-> NULL,
           messageLog |-> <<>>]

\* the wrapper page right after its script ran (lines 79-82)
FreshPage == [live |-> TRUE, ppReady |-> FALSE, psdData |-> NULL,
              messageLog |-> <<>>]

\* ------------------------------------------------------------------- Init
InitJobs ==
    /\ pc = [j \in Jobs |-> "idle"]
    /\ req = [j \in Jobs |-> NoFile]
    /\ browser = [j \in Jobs |-> 0]
    /\ page = [j \in Jobs |-> NoPage]
    /\ psdArray = [j \in Jobs |-> NULL]
    /\ err = [j \in Jobs |-> NoError]
    /\ resp = [j \in Jobs |-> NoResp]
    /\ sent = [j \in Jobs |-> <<>>]
    /\ proc = [h \in Jobs |-> "none"]
    /\ closedBy = [h \in Jobs |-> {}]
    /\ closeCalls = [j \in Jobs |-> 0]
    /\ src = [j \in Jobs |-> [ready |-> 0, psd |-> 0]]
    /\ obs = [j \in Jobs |-> [ready |-> 0, load |-> 0, psd |-> 0, got |-> 0]]
    /\ mark = [j \in Jobs |-> [clear1 |-> -1, clear2 |-> -1,
                               export |-> -1, retr |-> -1]]

\* one request, every upload and every message of the editor
Init ==
    /\ InitJobs
    /\ admit = 1
    /\ quota = MaxMsgs
    /\ faults = MaxFaults
    /\ env = "any"

\* NumJobs requests arriving at any time; the editor of each job posts the
\* sentinel and a well-formed result when the handler's comments expect them
InitConc ==
    /\ InitJobs
    /\ admit = NumJobs
    /\ quota = ConcMsgs
    /\ faults = ConcFaults
    /\ env = "inOrder"


\* -------------------------------------------------------- request intake
\* the lowest free handler slot takes the next request
NextSlot(j) ==
    /\ admit > 0
    /\ pc[j] = "idle"
    /\ \A i \in Jobs : i < j => pc[i] # "idle"

\* a filter that accepts every name holding ".fig"
fileFilterContains(originalname) == IndexFrom(originalname, FIG, 1) # 0

\* multer fileFilter (lines 20-26)
fileFilter(originalname) == EndsWith(originalname, FIG)

\* upload.single('file') rejects the file; the error middleware answers
UploadRejected(j) ==
    /\ NextSlot(j)
    /\ \E n \in Names :
        /\ ~fileFilter(n)
        /\ req' = [req EXCEPT ![j] = [NoFile EXCEPT !.originalname = n]]
        /\ resp' = [resp EXCEPT ![j] =
               [NoResp EXCEPT !.status = 500,
                              !.error = "Only .fig files are allowed"]]
    /\ pc' = [pc EXCEPT ![j] = "done"]
    /\ admit' = admit - 1
    /\ UNCHANGED << browser, page, psdArray, err, sent, proc, closedBy,
                    closeCalls, src, obs, mark, quota, env, faults >>

\* the request carries no file: if (!req.file) return 400
NoFileUploaded(j) ==
    /\ NextSlot(j)
    /\ resp' = [resp EXCEPT ![j] =
           [NoResp EXCEPT !.status = 400, !.error = "No file uploaded"]]
    /\ pc' = [pc EXCEPT ![j] = "done"]
    /\ admit' = admit - 1
    /\ UNCHANGED << req, browser, page, psdArray, err, sent, proc, closedBy,
                    closeCalls, src, obs, mark, quota, env, faults >>

\* an accepted upload enters the try block
Accept(j) ==
    /\ NextSlot(j)
    /\ \E n \in EnvNames(env), b \in FileBytes :
        /\ fileFilter(n)
        /\ req' = [req EXCEPT ![j] =
               [hasFile |-> TRUE, originalname |-> n, buffer |-> b]]
    /\ pc' = [pc EXCEPT ![j] = "launch"]
    /\ admit' = admit - 1
    /\ UNCHANGED << browser, page, psdArray, err, resp, sent, proc, closedBy,
                    closeCalls, src, obs, mark, quota, env, faults >>

\* ------------------------------------------------------- session set-up
\* an error thrown inside the try block reaches the catch
Throw(j, e) ==
    /\ faults > 0
    /\ faults' = faults - 1
    /\ err' = [err EXCEPT ![j] = e]
    /\ pc' = [pc EXCEPT ![j] = "catch"]

\* puppeteer.launch starts a new browser process for every call
NewHandle == CHOOSE h \in Jobs :
                 /\ proc[h] = "none"
                 /\ \A g \in Jobs : g < h => proc[g] # "none"

\* a launch that hands every job the same browser
LaunchShared(j) ==
    /\ pc[j] = "launch"
    /\ browser' = [browser EXCEPT ![j] = 1]
    /\ proc' = [proc EXCEPT ![1] = "running"]
    /\ pc' = [pc EXCEPT ![j] = "newPage"]
    /\ UNCHANGED << req, page, psdArray, err, resp, sent, closedBy,
                    closeCalls, src, obs, mark, quota, admit, env, faults >>

Launch(j) ==
    /\ pc[j] = "launch"
    /\ browser' = [browser EXCEPT ![j] = NewHandle]
    /\ proc' = [proc EXCEPT ![NewHandle] = "running"]
    /\ pc' = [pc EXCEPT ![j] = "newPage"]
    /\ UNCHANGED << req, page, psdArray, err, resp, sent, closedBy,
                    closeCalls, src, obs, mark, quota, admit, env, faults >>

\* a launch failure that the handler ignores
LaunchFailIgnored(j) ==
    /\ pc[j] = "launch"
    /\ faults > 0
    /\ faults' = faults - 1
    /\ pc' = [pc EXCEPT ![j] = "newPage"]
    /\ UNCHANGED << req, browser, page, psdArray, err, resp, sent, proc,
                    closedBy, closeCalls, src, obs, mark, quota, admit, env >>

\* puppeteer.launch rejects: `browser` stays undefined
LaunchFail(j) ==
    /\ pc[j] = "launch"
    /\ Throw(j, LaunchError)
    /\ UNCHANGED << req, browser, page, psdArray, resp, sent, proc, closedBy,
                    closeCalls, src, obs, mark, quota, admit, env >>

NewPage(j) ==
    /\ pc[j] = "newPage"
    /\ pc' = [pc EXCEPT ![j] = "goto"]
    /\ UNCHANGED << req, browser, page, psdArray, err, resp, sent, proc,
                    closedBy, closeCalls, src, obs, mark, quota, admit, env, faults >>

NewPageFail(j) ==
    /\ pc[j] = "newPage"
    /\ Throw(j, ProtocolError)
    /\ UNCHANGED << req, browser, page, psdArray, resp, sent, proc, closedBy,
                    closeCalls, src, obs, mark, quota, admit, env >>

\* page.goto starts: the wrapper document loads and its script runs
Goto(j) ==
    /\ pc[j] = "goto"
    /\ page' = [page EXCEPT ![j] = FreshPage]
    /\ pc' = [pc EXCEPT ![j] = "gotoWait"]
    /\ UNCHANGED << req, browser, psdArray, err, resp, sent, proc, closedBy,
                    closeCalls, src, obs, mark, quota, admit, env, faults >>

\* networkidle0 reached
GotoDone(j) ==
    /\ pc[j] = "gotoWait"
    /\ pc' = [pc EXCEPT ![j] = "waitReady"]
    /\ UNCHANGED << req, browser, page, psdArray, err, resp, sent, proc,
                    closedBy, closeCalls, src, obs, mark, quota, admit, env, faults >>

GotoFail(j) ==
    /\ pc[j] = "gotoWait"
    /\ Throw(j, NavigationTimeout(GotoTimeout))
    /\ UNCHANGED << req, browser, page, psdArray, resp, sent, proc, closedBy,
                    closeCalls, src, obs, mark, quota, admit, env >>


\* ------------------------------------------------------ wrapper listener
IsDone(m) == m.type = "string" /\ m.data = DONE

\* window.addEventListener('message', ...) (lines 84-98)
Listener(w, m) ==
    IF IsDone(m) THEN
        [w EXCEPT !.ppReady = TRUE,
                  !.messageLog = Append(@, << "done", <<>> >>)]
    ELSE IF m.type = "ArrayBuffer" THEN
        [w EXCEPT !.psdData = m.data,
                  !.messageLog = Append(@, << "arraybuffer", << Len(m.data) >> >>)]
    ELSE IF m.type = "string" THEN
        [w EXCEPT !.messageLog = Append(@, << "string", Substring0(m.data, 50) >>)]
    ELSE w

\* messages of the given kind that the wrapper of job j has received
Received(j, kind) ==
    Cardinality({k \in 1..Len(page[j].messageLog) :
                    page[j].messageLog[k][1] = kind})

\* the editor's answers as the handler expects them: "done" once loaded,
\* "done" once the file is processed, then the PSD data for the export
\* command
Expected(j, m) ==
    IF IsDone(m)
    THEN \/ Received(j, "done") = 0
         \/ Received(j, "done") = 1 /\ Len(sent[j]) >= 1
    ELSE /\ m.type = "ArrayBuffer"
         /\ Len(sent[j]) >= 2
         /\ Received(j, "arraybuffer") = 0

\* the iframe posts message m to the wrapper window of job j
PeerMessage(j, m) ==
    /\ page[j].live
    /\ m \in EnvMessages(env)
    /\ env = "inOrder" => Expected(j, m)
    /\ quota > 0
    /\ quota' = quota - 1
    /\ page' = [page EXCEPT ![j] = Listener(@, m)]
    /\ src' = [src EXCEPT ![j] =
           [ready |-> IF IsDone(m) THEN Len(page'[j].messageLog) ELSE @.ready,
            psd   |-> IF m.type = "ArrayBuffer"
                      THEN Len(page'[j].messageLog) ELSE @.psd]]
    /\ UNCHANGED << pc, req, browser, psdArray, err, resp, sent, proc,
                    closedBy, closeCalls, obs, mark, admit, env, faults >>

\* ------------------------------------------------------------- handshake
\* waitForFunction(() => window.ppReady === true) sees the flag (line 112)
WaitReady(j) ==
    /\ pc[j] = "waitReady"
    /\ page[j].ppReady = TRUE
    /\ obs' = [obs EXCEPT ![j].ready = src[j].ready]
    /\ pc' = [pc EXCEPT ![j] = "resetReady"]
    /\ UNCHANGED << req, browser, page, psdArray, err, resp, sent, proc,
                    closedBy, closeCalls, src, mark, quota, admit, env, faults >>

\* a handshake wait with no deadline: it returns only when the flag is set
WaitReadyNoDeadline(j) ==
    /\ pc[j] = "waitReady"
    /\ page[j].ppReady = TRUE
    /\ obs' = [obs EXCEPT ![j].ready = src[j].ready]
    /\ pc' = [pc EXCEPT ![j] = "resetReady"]
    /\ UNCHANGED << req, browser, page, psdArray, err, resp, sent, proc,
                    closedBy, closeCalls, src, mark, quota, admit, env, faults >>

\* the 60000 ms timer of the handshake wait fires (line 113)
WaitReadyTimeout(j) ==
    /\ pc[j] = "waitReady"
    /\ Throw(j, WaitingFailed(ReadyTimeout))
    /\ UNCHANGED << req, browser, page, psdArray, resp, sent, proc, closedBy,
                    closeCalls, src, obs, mark, quota, admit, env >>

\* a reset that leaves the flag set
ResetReadySkip(j) ==
    /\ pc[j] = "resetReady"
    /\ mark' = [mark EXCEPT ![j].clear1 = Len(page[j].messageLog)]
    /\ pc' = [pc EXCEPT ![j] = "postFile"]
    /\ UNCHANGED << req, browser, page, psdArray, err, resp, sent, proc,
                    closedBy, closeCalls, src, obs, quota, admit, env, faults >>

\* page.evaluate(() => { window.ppReady = false; }) (line 122)
ResetReady(j) ==
    /\ pc[j] = "resetReady"
    /\ page' = [page EXCEPT ![j].ppReady = FALSE]
    /\ src' = [src EXCEPT ![j].ready = 0]
    /\ mark' = [mark EXCEPT ![j].clear1 = Len(page[j].messageLog)]
    /\ pc' = [pc EXCEPT ![j] = "postFile"]
    /\ UNCHANGED << req, browser, psdArray, err, resp, sent, proc, closedBy,
                    closeCalls, obs, quota, admit, env, faults >>

\* -------------------------------------------------------------- transfer
\* iframe.contentWindow.postMessage(uint8Array.buffer, '*') (lines 124-128)
PostFile(j) ==
    /\ pc[j] = "postFile"
    /\ sent' = [sent EXCEPT ![j] =
           Append(@, [type |-> "ArrayBuffer",
                      data |-> Uint8Array(ArrayFromBuffer(req[j].buffer))])]
    /\ pc' = [pc EXCEPT ![j] = "waitLoad"]
    /\ UNCHANGED << req, browser, page, psdArray, err, resp, proc, closedBy,
                    closeCalls, src, obs, mark, quota, admit, env, faults >>

\* waitForFunction(() => window.ppReady === true) sees the flag (line 132)
WaitLoad(j) ==
    /\ pc[j] = "waitLoad"
    /\ page[j].ppReady = TRUE
    /\ obs' = [obs EXCEPT ![j].load = src[j].ready]
    /\ pc' = [pc EXCEPT ![j] = "settle"]
    /\ UNCHANGED << req, browser, page, psdArray, err, resp, sent, proc,
                    closedBy, closeCalls, src, mark, quota, admit, env, faults >>

\* a load wait that answers its timeout by posting the file again
WaitLoadRetry(j) ==
    /\ pc[j] = "waitLoad"
    /\ faults > 0
    /\ faults' = faults - 1
    /\ pc' = [pc EXCEPT ![j] = "postFile"]
    /\ UNCHANGED << req, browser, page, psdArray, err, resp, sent, proc,
                    closedBy, closeCalls, src, obs, mark, quota, admit, env >>

\* the 60000 ms timer of the load wait fires (line 133)
WaitLoadTimeout(j) ==
    /\ pc[j] = "waitLoad"
    /\ Throw(j, WaitingFailed(LoadTimeout))
    /\ UNCHANGED << req, browser, page, psdArray, resp, sent, proc, closedBy,
                    closeCalls, src, obs, mark, quota, admit, env >>

\* await new Promise(r => setTimeout(r, 2000)) (line 139)
Settle(j) ==
    /\ pc[j] = "settle"
    /\ pc' = [pc EXCEPT ![j] = "resetExport"]
    /\ UNCHANGED << req, browser, page, psdArray, err, resp, sent, proc,
                    closedBy, closeCalls, src, obs, mark, quota, admit, env, faults >>

\* ---------------------------------------------------------------- export
\* an export reset that clears the flag and keeps the data
ResetExportKeepsData(j) ==
    /\ pc[j] = "resetExport"
    /\ page' = [page EXCEPT ![j].ppReady = FALSE]
    /\ src' = [src EXCEPT ![j].ready = 0]
    /\ mark' = [mark EXCEPT ![j].clear2 = Len(page[j].messageLog)]
    /\ pc' = [pc EXCEPT ![j] = "postExport"]
    /\ UNCHANGED << req, browser, psdArray, err, resp, sent, proc, closedBy,
                    closeCalls, obs, quota, admit, env, faults >>

\* window.ppReady = false; window.psdData = null (lines 142-145)
ResetExport(j) ==
    /\ pc[j] = "resetExport"
    /\ page' = [page EXCEPT ![j].ppReady = FALSE, ![j].psdData = NULL]
    /\ src' = [src EXCEPT ![j] = [ready |-> 0, psd |-> 0]]
    /\ mark' = [mark EXCEPT ![j].clear2 = Len(page[j].messageLog)]
    /\ pc' = [pc EXCEPT ![j] = "postExport"]
    /\ UNCHANGED << req, browser, psdArray, err, resp, sent, proc, closedBy,
                    closeCalls, obs, quota, admit, env, faults >>

\* iframe.contentWindow.postMessage('app.activeDocument.saveToOE("psd");')
PostExport(j) ==
    /\ pc[j] = "postExport"
    /\ sent' = [sent EXCEPT ![j] =
           Append(@, [type |-> "string", data |-> EXPORTCMD])]
    /\ mark' = [mark EXCEPT ![j].export = Len(page[j].messageLog)]
    /\ pc' = [pc EXCEPT ![j] = "waitPsd"]
    /\ UNCHANGED << req, browser, page, psdArray, err, resp, proc, closedBy,
                    closeCalls, src, obs, quota, admit, env, faults >>

\* waitForFunction(() => window.psdData !== null) sees the data (line 156)
WaitPsd(j) ==
    /\ pc[j] = "waitPsd"
    /\ page[j].psdData # NULL
    /\ obs' = [obs EXCEPT ![j].psd = src[j].psd]
    /\ pc' = [pc EXCEPT ![j] = "retrieve"]
    /\ UNCHANGED << req, browser, page, psdArray, err, resp, sent, proc,
                    closedBy, closeCalls, src, mark, quota, admit, env, faults >>

WaitPsdTimeout(j) ==
    /\ pc[j] = "waitPsd"
    /\ Throw(j, WaitingFailed(PsdTimeout))
    /\ UNCHANGED << req, browser, page, psdArray, resp, sent, proc, closedBy,
                    closeCalls, src, obs, mark, quota, admit, env >>

\* psdArray = Array.from(new Uint8Array(window.psdData)) (lines 162-165)
Retrieve(j) ==
    /\ pc[j] = "retrieve"
    /\ psdArray' = [psdArray EXCEPT ![j] = ArrayFromBuffer(page[j].psdData)]
    /\ obs' = [obs EXCEPT ![j].got = src[j].psd]
    /\ mark' = [mark EXCEPT ![j].retr = Len(page[j].messageLog)]
    /\ pc' = [pc EXCEPT ![j] = "respond"]
    /\ UNCHANGED << req, browser, page, err, resp, sent, proc, closedBy,
                    closeCalls, src, quota, admit, env, faults >>

\* a page.evaluate call of the try block rejects
EvaluateFail(j) ==
    /\ pc[j] \in {"resetReady", "postFile", "resetExport", "postExport",
                  "retrieve"}
    /\ Throw(j, ProtocolError)
    /\ UNCHANGED << req, browser, page, psdArray, resp, sent, proc, closedBy,
                    closeCalls, src, obs, mark, quota, admit, env >>

\* res.set(...); res.send(psdBufferNode) (lines 170-180)
Respond(j) ==
    /\ pc[j] = "respond"
    /\ resp' = [resp EXCEPT ![j] =
           [NoResp EXCEPT !.status = 200,
                          !.body = BufferFrom(psdArray[j]),
                          !.filename = Replace(req[j].originalname, FIG, PSD)]]
    /\ pc' = [pc EXCEPT ![j] = "finally"]
    /\ UNCHANGED << req, browser, page, psdArray, err, sent, proc, closedBy,
                    closeCalls, src, obs, mark, quota, admit, env, faults >>

\* ------------------------------------------------------ catch and finally
\* the body of the 500 response: {error: 'Conversion failed', message}
ErrorResponse(e) ==
    [NoResp EXCEPT !.status = 500, !.error = "Conversion failed",
                   !.message = e]

\* a catch that answers with whatever bytes the job holds
CatchSendsPartial(j) ==
    /\ pc[j] = "catch"
    /\ resp' = [resp EXCEPT ![j] =
           [ErrorResponse(err[j]) EXCEPT !.status = 200,
                                         !.body = <<>>]]
    /\ pc' = [pc EXCEPT ![j] = "finally"]
    /\ UNCHANGED << req, browser, page, psdArray, err, sent, proc, closedBy,
                    closeCalls, src, obs, mark, quota, admit, env, faults >>

\* the catch block (lines 182-207): the debug read only logs what it finds
\* and ignores its own errors, then res.status(500).json({error, message})
Catch(j) ==
    /\ pc[j] = "catch"
    /\ resp' = [resp EXCEPT ![j] = ErrorResponse(err[j])]
    /\ pc' = [pc EXCEPT ![j] = "finally"]
    /\ UNCHANGED << req, browser, page, psdArray, err, sent, proc, closedBy,
                    closeCalls, src, obs, mark, quota, admit, env, faults >>

\* browser.close() is called on the handle h of job j
CloseCall(j, h) ==
    /\ closeCalls' = [closeCalls EXCEPT ![j] = @ + 1]
    /\ closedBy' = [closedBy EXCEPT ![h] = @ \cup {j}]

\* the process ends and takes its pages with it
Terminate(h) ==
    /\ proc' = [proc EXCEPT ![h] = "closed"]
    /\ page' = [i \in Jobs |->
                   IF browser[i] = h THEN [page[i] EXCEPT !.live = FALSE]
                   ELSE page[i]]

\* a handler that closes the browser only at the end of the try block
FinallyLeak(j) ==
    /\ pc[j] = "finally"
    /\ IF browser[j] # 0 /\ resp[j].status = 200
       THEN CloseCall(j, browser[j]) /\ Terminate(browser[j])
       ELSE UNCHANGED << closeCalls, closedBy, proc, page >>
    /\ pc' = [pc EXCEPT ![j] = "done"]
    /\ UNCHANGED << req, browser, psdArray, err, resp, sent, src, obs, mark,
                    quota, admit, env, faults >>

\* finally { if (browser) await browser.close(); } (lines 208-213)
Finally(j) ==
    /\ pc[j] = "finally"
    /\ IF browser[j] # 0
       THEN CloseCall(j, browser[j]) /\ Terminate(browser[j])
       ELSE UNCHANGED << closeCalls, closedBy, proc, page >>
    /\ pc' = [pc EXCEPT ![j] = "done"]
    /\ UNCHANGED << req, browser, psdArray, err, resp, sent, src, obs, mark,
                    quota, admit, env, faults >>

\* browser.close() rejects: the rejection leaves the handler
FinallyCloseFail(j) ==
    /\ pc[j] = "finally"
    /\ browser[j] # 0
    /\ faults > 0
    /\ faults' = faults - 1
    /\ CloseCall(j, browser[j])
    /\ \E crashed \in BOOLEAN :
           IF crashed THEN Terminate(browser[j])
           ELSE UNCHANGED << proc, page >>
    /\ pc' = [pc EXCEPT ![j] = "rejected"]
    /\ UNCHANGED << req, browser, psdArray, err, resp, sent, src, obs, mark,
                    quota, admit, env >>

\* ------------------------------------------------------------------ Next
Next ==
    \E j \in Jobs :
        \/ UploadRejected(j)
        \/ NoFileUploaded(j)
        \/ Accept(j)
        \/ Launch(j)
        \/ LaunchFail(j)
        \/ NewPage(j)
        \/ NewPageFail(j)
        \/ Goto(j)
        \/ GotoDone(j)
        \/ GotoFail(j)
        \/ \E m \in Messages : PeerMessage(j, m)
        \/ WaitReady(j)
        \/ WaitReadyTimeout(j)
        \/ ResetReady(j)
        \/ PostFile(j)
        \/ WaitLoad(j)
        \/ WaitLoadTimeout(j)
        \/ Settle(j)
        \/ ResetExport(j)
        \/ PostExport(j)
        \/ WaitPsd(j)
        \/ WaitPsdTimeout(j)
        \/ Retrieve(j)
        \/ EvaluateFail(j)
        \/ Respond(j)
        \/ Catch(j)
        \/ Finally(j)
        \/ FinallyCloseFail(j)

Spec == Init /\ [][Next]_vars

SpecConc == InitConc /\ [][Next]_vars

\* the continuation of job j's handler: the await it stands at resolves or
\* rejects (the controller call returns, the timer of a wait or of the
\* settle delay fires)
HandlerStep(j) ==
    \/ Launch(j) \/ LaunchFail(j) \/ NewPage(j) \/ NewPageFail(j)
    \/ Goto(j) \/ GotoDone(j) \/ GotoFail(j)
    \/ WaitReady(j) \/ WaitReadyTimeout(j) \/ ResetReady(j) \/ PostFile(j)
    \/ WaitLoad(j) \/ WaitLoadTimeout(j) \/ Settle(j)
    \/ ResetExport(j) \/ PostExport(j)
    \/ WaitPsd(j) \/ WaitPsdTimeout(j) \/ Retrieve(j) \/ EvaluateFail(j)
    \/ Respond(j) \/ Catch(j) \/ Finally(j) \/ FinallyCloseFail(j)

\* one request, every upload and every message of the editor, as in Init
InitLive ==
    /\ InitJobs
    /\ admit = 1
    /\ quota = LiveMsgs
    /\ faults = MaxFaults
    /\ env = "any"

\* one request whose handler's awaits all eventually settle; nothing is
\* assumed of the editor or of the arrival of requests.  A single job
\* fails at most once in its try block and once in close, so the fault
\* budget never disables a timeout.
SpecLive ==
    InitLive /\ [][Next]_vars /\ \A j \in Jobs : WF_vars(HandlerStep(j))


\* ================================================================ claims
Ended(j) == pc[j] \in {"done", "rejected"}
Log(j) == page[j].messageLog
IsSentinel(j, k) == k \in 1..Len(Log(j)) /\ Log(j)[k][1] = "done"
FilePosted(j) == Len(sent[j]) >= 1 /\ sent[j][1].type = "ArrayBuffer"
ExportPosted(j) ==
    \E k \in 1..Len(sent[j]) :
        sent[j][k].type = "string" /\ sent[j][k].data = EXPORTCMD

\* C1: a job whose launch succeeded calls browser.close exactly once by the
\* time it ends, whatever failed after the launch; a job whose launch failed
\* never calls it.
C1_ReleaseExactlyOnce ==
    \A j \in Jobs :
        /\ closeCalls[j] <= 1
        /\ browser[j] = 0 => closeCalls[j] = 0
        /\ (Ended(j) /\ browser[j] # 0) => closeCalls[j] = 1

\* a job that failed after its launch has ended with one close call
C1_Witness ==
    \E j \in Jobs :
        /\ pc[j] = "done" /\ browser[j] # 0
        /\ resp[j].status = 500 /\ err[j] = ProtocolError
        /\ FilePosted(j)
        /\ closeCalls[j] = 1

\* C2: the payload is posted only after the handshake wait saw a sentinel,
\* the export command only after the load wait saw a sentinel that arrived
\* after the ready flag was cleared; the two waits are never satisfied by
\* the same sentinel.
C2_PhaseOrder ==
    \A j \in Jobs :
        /\ FilePosted(j) =>
              /\ IsSentinel(j, obs[j].ready)
              /\ obs[j].ready <= mark[j].clear1
        /\ ExportPosted(j) =>
              /\ FilePosted(j)
              /\ IsSentinel(j, obs[j].load)
              /\ obs[j].load > mark[j].clear1
              /\ obs[j].load # obs[j].ready

\* the export command was posted after two distinct sentinels were seen
C2_Witness ==
    \E j \in Jobs :
        /\ ExportPosted(j)
        /\ obs[j].ready > 0 /\ obs[j].load > obs[j].ready


\* what a caller can tell from a 500 response: the responses the handler
\* sends when a wait of the given phase times out
TimeoutKinds == {"HandshakeTimeout", "LoadTimeout", "ExportTimeout"}
TimeoutResponse(kind) ==
    CASE kind = "HandshakeTimeout" -> ErrorResponse(WaitingFailed(ReadyTimeout))
      [] kind = "LoadTimeout"      -> ErrorResponse(WaitingFailed(LoadTimeout))
      [] kind = "ExportTimeout"    -> ErrorResponse(WaitingFailed(PsdTimeout))
ClassifiedAs(r, kind) ==
    /\ r = TimeoutResponse(kind)
    /\ \A k \in TimeoutKinds \ {kind} : r # TimeoutResponse(k)

\* the handshake wait of job j timed out
HandshakeTimedOut(j) ==
    err[j] = WaitingFailed(ReadyTimeout) /\ obs[j].ready = 0
\* the load wait of job j timed out
LoadTimedOut(j) ==
    /\ err[j] = WaitingFailed(LoadTimeout)
    /\ obs[j].ready > 0 /\ obs[j].load = 0 /\ FilePosted(j)

\* C3: when the editor never emits the sentinel in the handshake phase the
\* job fails with an error classified as HandshakeTimeout and neither the
\* payload nor the export command is posted.
C3_HandshakeTimeoutClassified ==
    \A j \in Jobs :
        ( /\ resp[j].status # 0
          /\ HandshakeTimedOut(j)
          /\ \A k \in 1..Len(Log(j)) : ~IsSentinel(j, k) )
        => /\ ClassifiedAs(resp[j], "HandshakeTimeout")
           /\ ~FilePosted(j)
           /\ ~ExportPosted(j)

\* C4: when the editor emits the ready sentinel but no sentinel after the
\* payload was posted, the job fails with an error classified as
\* LoadTimeout, distinct from the other timeout kinds, no export command is
\* posted and the session is released exactly once.
C4_LoadTimeoutClassified ==
    \A j \in Jobs :
        ( /\ Ended(j)
          /\ LoadTimedOut(j)
          /\ \A k \in 1..Len(Log(j)) :
                 IsSentinel(j, k) => k <= mark[j].clear1 )
        => /\ ClassifiedAs(resp[j], "LoadTimeout")
           /\ ~ExportPosted(j)
           /\ closeCalls[j] = 1

\* the magic signature of the target format, '8BPS'
Magic == <<56, 66, 80, 83>>
HasMagic(bytes) == Len(bytes) >= 4 /\ SubSeq(bytes, 1, 4) = Magic

\* C5: every successful job returns a payload whose first 4 bytes are the
\* magic signature; a result with another header is not returned as a
\* success.
C5_SuccessHasMagic ==
    \A j \in Jobs : resp[j].status = 200 => HasMagic(resp[j].body)

\* C6: a zero-length binary answer to the export command makes the job
\* fail; no job ends in success with an empty payload.
C6_NoEmptySuccess ==
    \A j \in Jobs : resp[j].status = 200 => resp[j].body # <<>>

\* C7: when the editor answers the export command with a binary result
\* followed by a trailing sentinel, the result is not retrieved before both
\* have been received.
C7_WaitsForTrailingSentinel ==
    \A j \in Jobs :
        ( /\ mark[j].retr >= 0
          /\ obs[j].got > mark[j].export
          /\ IsSentinel(j, obs[j].got + 1) )
        => mark[j].retr >= obs[j].got + 1

\* C8: when a phase fails after the session was acquired, browser.close is
\* called before the 500 response is sent.
C8_ReleaseBeforeErrorResponse ==
    \A j \in Jobs :
        (resp[j].status = 500 /\ browser[j] # 0) => closeCalls[j] >= 1

\* C9: a failure of browser.close is swallowed: no error leaves the job's
\* handler.
C9_CloseFailureSwallowed ==
    \A j \in Jobs : pc[j] # "rejected"

\* a step leaves the part of the state that belongs to job i alone
Untouched(i) ==
    /\ pc'[i] = pc[i]
    /\ page'[i] = page[i]
    /\ resp'[i] = resp[i]
    /\ err'[i] = err[i]
    /\ browser'[i] = browser[i]
    /\ req'[i] = req[i]
    /\ psdArray'[i] = psdArray[i]
    /\ sent'[i] = sent[i]
    /\ closeCalls'[i] = closeCalls[i]
    /\ src'[i] = src[i] /\ obs'[i] = obs[i] /\ mark'[i] = mark[i]
    /\ browser[i] # 0 => proc'[browser[i]] = proc[browser[i]]

SessionsDistinct ==
    /\ \A i, j \in Jobs :
           (i # j /\ browser[i] # 0 /\ browser[j] # 0)
               => browser[i] # browser[j]
    /\ \A h \in Jobs : closedBy[h] \subseteq {j \in Jobs : browser[j] = h}
    /\ \A j \in Jobs :
           (browser[j] # 0 /\ closeCalls[j] = 0)
               => proc[browser[j]] = "running"

\* C10: concurrent jobs each launch and use their own browser session: no
\* handle is held or closed by two jobs, and every step is the step of one
\* job (a timeout or failure included) that changes neither the state or
\* outcome of another job nor the process of another job's session.
C10_JobIsolation ==
    [][ /\ SessionsDistinct'
        /\ \E j \in Jobs : \A i \in Jobs \ {j} : Untouched(i) ]_vars

\* two jobs ran concurrently, one timed out and the other succeeded
C10_Witness ==
    \E i, j \in Jobs :
        /\ i # j
        /\ browser[i] # 0 /\ browser[j] # 0
        /\ pc[i] = "done" /\ resp[i].status = 500
        /\ err[i] = WaitingFailed(ReadyTimeout)
        /\ pc[j] = "done" /\ resp[j].status = 200
        /\ mark[j].retr >= 0 /\ closeCalls[i] = 1

\* the outcome of job j: none yet, a payload, or an error
Outcome(j) ==
    IF resp[j].status = 0 THEN "none"
    ELSE IF resp[j].status = 200 THEN "payload" ELSE "error"

\* C11: a job delivers one outcome, a payload or an error and never both:
\* a response once sent is never replaced, an error response carries no
\* payload bytes, a payload response carries no error, and a payload is
\* sent only by a job whose handshake wait and load wait each saw a
\* sentinel, whose retrieval read a binary message, and in which no phase
\* failed.
C11_OneOutcome ==
    [][ \A j \in Jobs :
          /\ resp[j] # NoResp => resp'[j] = resp[j]
          /\ Ended(j)' => Outcome(j)' # "none"
          /\ Outcome(j)' = "error" => resp'[j].body = NULL
          /\ Outcome(j)' = "payload" =>
                /\ resp'[j].error = "" /\ resp'[j].message = NoError
                /\ err'[j] = NoError
                /\ IsSentinel(j, obs[j].ready)'
                /\ IsSentinel(j, obs[j].load)'
                /\ obs'[j].got > 0
                /\ Log(j)'[obs'[j].got][1] = "arraybuffer"
                /\ resp'[j].body = BufferFrom(psdArray'[j]) ]_vars

\* a job delivered a payload after all three observations and ended
C11_Witness ==
    \E j \in Jobs :
        /\ pc[j] = "done" /\ Outcome(j) = "payload"
        /\ obs[j].ready > 0 /\ obs[j].load > 0 /\ obs[j].got > 0
        /\ Len(resp[j].body) > 0

\* the launch of job j failed: the handler is past the launch with no
\* browser handle
LaunchFailed(j) ==
    /\ req[j].hasFile
    /\ pc[j] \notin {"idle", "launch"}
    /\ browser[j] = 0

\* the errors the handler can catch after a successful launch
LaterFailures ==
    { ProtocolError, NavigationTimeout(GotoTimeout),
      WaitingFailed(ReadyTimeout), WaitingFailed(LoadTimeout),
      WaitingFailed(PsdTimeout) }

\* the response tells a caller that the launch failed
ClassifiedAsLaunchError(r) ==
    /\ r = ErrorResponse(LaunchError)
    /\ \A e \in LaterFailures : r # ErrorResponse(e)

C13_Terminates ==
    \A j \in Jobs :
        (pc[j] # "idle") ~> (Ended(j) /\ resp[j].status # 0)

\* a job ended with a response although its editor never posted a message
C13_Witness ==
    \E j \in Jobs :
        /\ pc[j] = "done" /\ resp[j].status = 500
        /\ browser[j] # 0 /\ page[j].messageLog = <<>>
        /\ err[j] = WaitingFailed(ReadyTimeout)
        /\ quota = LiveMsgs

\* the request of job j carries no file, or a file whose name does not end
\* in ".fig"
NotAFig(j) ==
    /\ pc[j] # "idle"
    /\ \/ req[j] = NoFile
       \/ ~EndsWith(req[j].originalname, FIG)

\* C14: a request that carries no file, or a file whose name does not end
\* in ".fig", is answered with an error response (status 400 or 500, no
\* payload) before the try block: no browser is launched for it and no
\* page is opened.
C14_RejectedBeforeLaunch ==
    \A j \in Jobs :
        NotAFig(j) =>
            /\ pc[j] = "done"
            /\ ~req[j].hasFile
            /\ resp[j].status \in {400, 500}
            /\ resp[j].error # "" /\ resp[j].body = NULL
            /\ browser[j] = 0 /\ closeCalls[j] = 0
            /\ page[j] = NoPage /\ sent[j] = <<>>
            /\ \A h \in Jobs : j \notin closedBy[h]

\* an upload whose name holds ".fig" without ending in it was rejected
C14_Witness ==
    \E j \in Jobs :
        /\ pc[j] = "done"
        /\ req[j].originalname = FIG \o <<"x">>
        /\ resp[j].status = 500
        /\ resp[j].error = "Only .fig files are allowed"
        /\ browser[j] = 0

\* sentinels among the first n messages the wrapper of job j received
SentinelCount(j, n) ==
    Cardinality({k \in 1..Min(n, Len(Log(j))) : IsSentinel(j, k)})

\* the position-counting machine fed the messages received so far: the
\* first sentinel makes it ready, the second makes the load complete
MachineReady(j) == SentinelCount(j, Len(Log(j))) >= 1
MachineLoaded(j) == SentinelCount(j, Len(Log(j))) >= 2

\* C15: the flag-based detection agrees with the position-counting
\* machine: a wait is satisfied only when the machine has reached the
\* state (ready: one sentinel, load complete: two), a wait that polls
\* while the machine is in the state finds the flag set, and the sentinel
\* that satisfies the load wait is the second one received since
\* navigation.
C15_PositionCounting ==
    \A j \in Jobs :
        /\ obs[j].ready > 0 => MachineReady(j)
        /\ obs[j].load > 0 => MachineLoaded(j)
        /\ (pc[j] = "waitReady" /\ MachineReady(j)) => page[j].ppReady
        /\ (pc[j] = "waitLoad" /\ MachineLoaded(j)) => page[j].ppReady
        /\ obs[j].load > 0 => SentinelCount(j, mark[j].clear1) = 1

\* the name with its trailing ".fig" replaced by ".psd"
SuffixReplaced(name) == SubSeq(name, 1, Len(name) - Len(FIG)) \o PSD

\* C16: the file name a successful job suggests is the uploaded name with
\* its trailing ".fig" replaced by ".psd" and nothing else changed.
C16_OutputName ==
    \A j \in Jobs :
        resp[j].status = 200 =>
            /\ EndsWith(req[j].originalname, FIG)
            /\ resp[j].filename = SuffixReplaced(req[j].originalname)

\* messages of the given type that job j posted to the editor
Posted(j, type) ==
    Cardinality({k \in 1..Len(sent[j]) : sent[j][k].type = type})

\* browser processes that were ever started
Started == {h \in Jobs : proc[h] # "none"}

\* C17: no step of a job is retried: the job's browser handle is assigned
\* at most once and one process is started per handle, the file is posted
\* at most once and the export command at most once, and after an error
\* was caught the job launches and posts nothing.
C17_NoRetry ==
    [][ /\ Cardinality(Started') = Cardinality({i \in Jobs : browser'[i] # 0})
        /\ \A j \in Jobs :
              /\ browser'[j] # browser[j] => browser[j] = 0
              /\ Posted(j, "ArrayBuffer")' <= 1
              /\ Posted(j, "string")' <= 1
              /\ err[j] # NoError =>
                    /\ browser'[j] = browser[j]
                    /\ sent'[j] = sent[j] ]_vars

\* a job failed in its export wait after one launch, one file post and one
\* export command, and ended
C17_Witness ==
    \E j \in Jobs :
        /\ pc[j] = "done" /\ resp[j].status = 500
        /\ err[j] = WaitingFailed(PsdTimeout) /\ obs[j].load > 0
        /\ browser[j] # 0 /\ Cardinality(Started) = 1
        /\ Posted(j, "ArrayBuffer") = 1 /\ Posted(j, "string") = 1

\* the k-th message the wrapper of job j received is a binary message
IsBinary(j, k) == k \in 1..Len(Log(j)) /\ Log(j)[k][1] = "arraybuffer"

\* C18: the payload a successful job returns is the binary message the
\* retrieval read, and the wrapper received that message after psdData
\* was reset for the export (line 144); a binary message received before
\* the reset is never the one returned.
C18_FreshExportResult ==
    \A j \in Jobs :
        resp[j].status = 200 =>
            /\ IsBinary(j, obs[j].got)
            /\ mark[j].clear2 >= 0
            /\ obs[j].got > mark[j].clear2
            /\ Len(resp[j].body) = Log(j)[obs[j].got][2][1]

\* a job received a binary message before the reset and another one after
\* it, and returned the later one
C18_Witness ==
    \E j \in Jobs :
        /\ resp[j].status = 200
        /\ \E k \in 1..mark[j].clear2 :
               /\ IsBinary(j, k)
               /\ Log(j)[k][2][1] # Len(resp[j].body)
        /\ obs[j].got > mark[j].clear2
        /\ Len(resp[j].body) > 0

====
